---- MODULE Spec2Model ----
(***************************************************************************)
(* State-machine model of @hanakla/react-lightbox                          *)
(* (pkgs/lightbox/src/index.tsx): the useLightbox controlling hook, its    *)
(* LightboxView viewer instances, the Lightbox.Root shell, the windowed     *)
(* Lightbox.Viewport with the drag navigation of Lightbox.Item, and the     *)
(* Lightbox.Pinchable wrapper, the Portal and useConcatRef.                *)
(*                                                                         *)
(* One step of the model is one render pass step of the hook or one DOM    *)
(* event handler together with the React commit it causes (state update,   *)
(* context memo, effect cleanups and effects), so every state with         *)
(* phase = "idle" is a settled state.                                      *)
(***************************************************************************)
EXTENDS Integers, Sequences, FiniteSets, TLC

\* ---------------------------------------------------------------- bounds
MaxItems == 3          \* most items the consumer registers in a render pass
MaxViewers == 2        \* LightboxView instances the consumer may mount

\* ------------------------------------------------------------- encodings
NULL == 0 - 99         \* `null` of `number | null`
NoEffect == "none"     \* no Root scroll-lock effect instance is alive

Viewer == 1..MaxViewers
ViewerOrder == [i \in 1..MaxViewers |-> i]      \* tree order of the viewers

Min(a, b) == IF a < b THEN a ELSE b
Max(a, b) == IF a > b THEN a ELSE b

\* The consumer renders the first n entries of its catalogue; the k-th
\* getOnClick call of a render pass registers catalogue entry k.
Catalogue(k) == 100 + k

\* useLightbox option, `preventScrollWhileOpen = true` by default
preventScrollWhileOpen == TRUE

VARIABLES
    phase,          \* "render": the hook owner's render function is running
    items,          \* items.current of useLightbox
    handlers,       \* itemIndex bound by the handler of the k-th getOnClick call
    mounted,        \* setOpens: viewer v is mounted and subscribed
    isOpen,         \* useState `isOpen` of each LightboxView (NULL when closed)
    ctxItems,       \* `items` captured by the context memo of each LightboxView
    original,       \* `original` captured by the live Root scroll-lock effect
    bodyOverflow,   \* document.body.style.overflow
    priorOverflow,  \* body overflow before any viewer was opened
    last,           \* the handler that ran last, with its inputs
    trace,          \* the calls that handler made, in order
    offsetX,        \* useState `offsetX` of the Viewport (the drag offset)
    dragging,       \* a drag gesture on an Item is in progress
    pending,        \* the release handler suspended at `await onLoadNext()`
    transform,      \* useState `{scale, x, y}` of the Pinchable
    swipeOffsetY,   \* useState `swipeOffsetY` of the Pinchable
    pinchDown,      \* a drag gesture on the Pinchable is in progress
    zoomReported,   \* the value the Pinchable passed to onZoomChange last
    container,      \* useState `container` of each viewer's Portal
    body,           \* the elements Portals appended to document.body
    merged          \* the object useConcatRef returned, with what its closure
                    \* and its consumers hold

hookVars == <<phase, items, handlers, mounted, isOpen, ctxItems, original,
              bodyOverflow, priorOverflow>>
dragVars == <<offsetX, dragging, pending>>
pinchVars == <<transform, swipeOffsetY, pinchDown, zoomReported>>
portalVars == <<container, body>>

vars == <<phase, items, handlers, mounted, isOpen, ctxItems, original,
          bodyOverflow, priorOverflow, last, trace,
          offsetX, dragging, pending,
          transform, swipeOffsetY, pinchDown, zoomReported,
          container, body, merged>>

\* `last`: op, the viewer it ran in, the key or argument form, the argument,
\* whether the event was default-prevented, whether the optional consumer
\* callback (onClick, $onClose) was passed, and the index before a key press
NoOp == [op |-> "none", v |-> 0, key |-> "", arg |-> NULL,
         prevented |-> FALSE, cb |-> FALSE, prev |-> NULL]

Op(op, v, key, arg, prevented, cb, prev) ==
    [op |-> op, v |-> v, key |-> key, arg |-> arg,
     prevented |-> prevented, cb |-> cb, prev |-> prev]

\* ------------------------------------------------- React commit machinery

\* Viewers of ViewerOrder that satisfy a predicate given as a set
InOrder(S) == SelectSeq(ViewerOrder, LAMBDA v : v \in S)

\* Root effect cleanup: `document.body.style.overflow = original`
RECURSIVE RunCleanups(_, _, _)
RunCleanups(ov, orig, vs) ==
    IF vs = <<>> THEN ov
    ELSE RunCleanups(IF preventScrollWhileOpen THEN orig[Head(vs)] ELSE ov,
                     orig, Tail(vs))

\* Root effect body: `original = overflow; overflow = "hidden"`
\* (currentIndex is never null inside a rendered Root)
RECURSIVE RunEffects(_, _)
RunEffects(st, vs) ==
    IF vs = <<>> THEN st
    ELSE RunEffects(
             [overflow |-> IF preventScrollWhileOpen THEN "hidden" ELSE st.overflow,
              original |-> [st.original EXCEPT ![Head(vs)] = st.overflow]],
             Tail(vs))

\* The commit that follows new `isOpen` values: the context memo of every
\* viewer whose isOpen changed is recomputed from items.current (the context
\* is provided only while isOpen is not null, so the memo of a closed viewer
\* is recorded as empty: it is recomputed before it is provided again); effects of
\* Roots whose currentIndex changed or that unmounted are cleaned up; Roots
\* that stay mounted re-run the effect, then the Roots of newly opened
\* viewers mount (one commit later, after their Portal container exists).
Commit(newOpen) ==
    LET changed == {v \in Viewer : newOpen[v] # isOpen[v]}
        torn    == {v \in changed : isOpen[v] # NULL}
        rerun   == {v \in changed : isOpen[v] # NULL /\ newOpen[v] # NULL}
        opened  == {v \in changed : isOpen[v] = NULL /\ newOpen[v] # NULL}
        ov1     == RunCleanups(bodyOverflow, original, InOrder(torn))
        orig1   == [v \in Viewer |-> IF v \in torn THEN NoEffect ELSE original[v]]
        st      == RunEffects([overflow |-> ov1, original |-> orig1],
                              InOrder(rerun) \o InOrder(opened))
    IN  /\ isOpen' = newOpen
        /\ ctxItems' = [v \in Viewer |->
                          IF newOpen[v] = NULL THEN <<>>
                          ELSE IF v \in changed THEN items ELSE ctxItems[v]]
        /\ original' = st.original
        /\ bodyOverflow' = st.overflow

\* ------------------------------------------------------------------ Portal

\* What LightboxView renders: `if (isOpen == null || ...) return null`,
\* otherwise the Portal with the provider and the consumer's component
viewRenders(open) == IF open = NULL THEN "nothing" ELSE "portal"

\* `document.createElement("div")`: an element that is no child of the body
\* (elements are numbered; the number of a removed element is free again)
createElement(b) ==
    CHOOSE n \in 1..(Cardinality(b) + 1) :
        n \notin b /\ \A k \in 1..(n - 1) : k \in b

\* mutant: the cleanup leaves the element in the body
removeChildKeeps(b, el) == b

\* effect cleanup of a Portal: `document.body.removeChild(el)`
removeChild(b, el) == b \ {el}

\* effect of a Portal that mounted: `el = createElement("div");
\* body.appendChild(el); setContainer(el)`, for the viewers vs in tree order
RECURSIVE PortalEffects(_, _)
PortalEffects(st, vs) ==
    IF vs = <<>> THEN st
    ELSE LET el == createElement(st.body)
         IN  PortalEffects([body |-> st.body \cup {el},
                            container |-> [st.container EXCEPT ![Head(vs)] = el]],
                           Tail(vs))

\* cleanups of the Portals that unmounted, for the viewers vs in tree order
RECURSIVE PortalCleanups(_, _)
PortalCleanups(st, vs) ==
    IF vs = <<>> THEN st
    ELSE PortalCleanups([body |-> removeChild(st.body, st.container[Head(vs)]),
                         container |-> [st.container EXCEPT ![Head(vs)] = NULL]],
                        Tail(vs))

\* The Portals in the commit of a step: a Portal is mounted while its
\* LightboxView renders it. The Portals of viewers that stopped rendering
\* it (closed or unmounted) run their cleanup, then the Portals of viewers
\* that started rendering it run their effect (`[]` dependencies: neither
\* runs on any other render).
PortalAfter ==
    LET gone == {v \in Viewer : /\ viewRenders(isOpen[v]) = "portal"
                                /\ viewRenders(isOpen'[v]) = "nothing"}
        come == {v \in Viewer : /\ viewRenders(isOpen[v]) = "nothing"
                                /\ viewRenders(isOpen'[v]) = "portal"}
        st == PortalEffects(
                  PortalCleanups([body |-> body, container |-> container],
                                 InOrder(gone)),
                  InOrder(come))
    IN  /\ body' = st.body
        /\ container' = st.container

\* ------------------------------------------------------ useLightbox hook

\* `items.current = []` at the start of every render pass of the hook owner
RenderBegin ==
    /\ phase = "idle"
    /\ phase' = "render"
    /\ items' = <<>>
    /\ handlers' = <<>>
    /\ last' = NoOp /\ trace' = <<>>
    /\ UNCHANGED <<mounted, isOpen, ctxItems, original, bodyOverflow, priorOverflow>>

\* mutant: the index is the length after the push
itemIndexIsLength(its) == Len(its)

\* `const itemIndex = items.current.length - 1` after the push
itemIndexOf(its) == Len(its) - 1

\* getOnClick(item): push the item, bind the handler to its index
GetOnClick ==
    /\ phase = "render"
    /\ Len(items) < MaxItems
    /\ LET pushed == Append(items, Catalogue(Len(items) + 1))
       IN  /\ items' = pushed
           /\ handlers' = Append(handlers, itemIndexOf(pushed))
    /\ UNCHANGED <<phase, mounted, isOpen, ctxItems, original, bodyOverflow,
                   priorOverflow, last, trace>>

\* the render pass returns and React commits it
RenderEnd ==
    /\ phase = "render"
    /\ phase' = "idle"
    /\ UNCHANGED <<items, handlers, mounted, isOpen, ctxItems, original,
                   bodyOverflow, priorOverflow, last, trace>>

\* LightboxView mounts: useState(null), memo computed, subscribe effect
Mount(v) ==
    /\ phase = "idle"
    /\ ~mounted[v]
    /\ mounted' = [mounted EXCEPT ![v] = TRUE]
    /\ last' = NoOp /\ trace' = <<>>
    /\ UNCHANGED <<phase, items, handlers, isOpen, ctxItems, original,
                   bodyOverflow, priorOverflow>>

\* LightboxView unmounts: its Root (if any) unmounts, unsubscribe cleanup
Unmount(v) ==
    /\ phase = "idle"
    /\ mounted[v]
    /\ mounted' = [mounted EXCEPT ![v] = FALSE]
    /\ Commit([isOpen EXCEPT ![v] = NULL])
    /\ last' = NoOp /\ trace' = <<>>
    /\ UNCHANGED <<phase, items, handlers, priorOverflow>>

\* the setOpen dispatchers in setOpens.current
setOpens == {v \in Viewer : mounted[v]}

\* `for (const setOpen of setOpens.current) { setOpen(itemIndex); onVisibilityChangeRef(true) }`
RECURSIVE BroadcastTrace(_)
BroadcastTrace(vs) ==
    IF vs = <<>> THEN <<>>
    ELSE <<"setOpen", "onVisibilityChange(true)">> \o BroadcastTrace(Tail(vs))

\* mutant: the handler stops after the first subscriber
BroadcastFirstOnly(subs) == IF subs = {} THEN {} ELSE {CHOOSE v \in subs : TRUE}

\* the viewers the click handler opens: every member of setOpens.current
BroadcastTargets(subs) == subs

\* mutant: the handler does not look at e.defaultPrevented
clickTargetsIgnoringPrevented(prevented, subs) == BroadcastTargets(subs)

\* `if (e.defaultPrevented) return;` before the loop over setOpens.current
clickTargets(prevented, subs) ==
    IF prevented THEN {} ELSE BroadcastTargets(subs)

\* the handler returned by getOnClick, invoked with event e
ClickItem(h, hasOnClick, prevented) ==
    /\ phase = "idle"
    /\ h \in 1..Len(handlers)
    /\ prevented => hasOnClick
    /\ LET itemIndex == handlers[h]
           targets == clickTargets(prevented, setOpens)
       IN  /\ Commit([v \in Viewer |-> IF v \in targets THEN itemIndex ELSE isOpen[v]])
           /\ trace' = (IF hasOnClick THEN <<"onClick">> ELSE <<>>)
                         \o BroadcastTrace(InOrder(targets))
           /\ last' = Op("click", 0, "", h - 1, prevented, hasOnClick, NULL)
    /\ UNCHANGED <<phase, items, handlers, mounted, priorOverflow>>

\* ---------------------------------------------- LightboxView: setIndex

\* `next ? Math.max(0, Math.min(next, items.current.length - 1)) : next`
\* (0 and null are falsy and returned as they are)
setIndexNext(next, len) ==
    IF next # NULL /\ next # 0 THEN Max(0, Min(next, len - 1)) ELSE next

\* updater functions a consumer may pass: `(prev) => prev + 1`, `prev - 1`
\* (null coerces to 0 in the arithmetic)
Updater == {"inc", "dec"}
ApplyUpdater(u, prev) ==
    LET p == IF prev = NULL THEN 0 ELSE prev
    IN  IF u = "inc" THEN p + 1 ELSE p - 1

\* values a consumer may pass to setCurrentIndex
IndexArg == {NULL} \cup ((0 - 1)..MaxItems)

\* calls made by setIndex and by handleClose
setIndexCalls == <<"setOpen">>
handleCloseCalls == <<"setOpen", "onVisibilityChange(false)">>

\* mutant: one index shared by all mounted viewers
SetOpenShared(open, v, value) ==
    [w \in Viewer |-> IF mounted[w] THEN value ELSE open[w]]

\* the state a setOpen dispatcher of viewer v leaves, given the value it sets:
\* each LightboxView has its own useState
SetOpen(open, v, value) == [open EXCEPT ![v] = value]

\* context.setCurrentIndex(index) with a value
SetCurrentIndex(v, index) ==
    /\ phase = "idle"
    /\ isOpen[v] # NULL
    /\ Commit(SetOpen(isOpen, v, setIndexNext(index, Len(items))))
    /\ trace' = setIndexCalls
    /\ last' = Op("setCurrentIndex", v, "value", index, FALSE, FALSE, NULL)
    /\ UNCHANGED <<phase, items, handlers, mounted, priorOverflow>>

\* context.setCurrentIndex(fn) with an updater function
SetCurrentIndexFn(v, u) ==
    /\ phase = "idle"
    /\ isOpen[v] # NULL
    /\ LET next == ApplyUpdater(u, isOpen[v])
       IN  /\ Commit(SetOpen(isOpen, v, setIndexNext(next, Len(items))))
           /\ last' = Op("setCurrentIndex", v, "updater", next, FALSE, FALSE, NULL)
    /\ trace' = setIndexCalls
    /\ UNCHANGED <<phase, items, handlers, mounted, priorOverflow>>

\* context.close(): handleClose
Close(v) ==
    /\ phase = "idle"
    /\ isOpen[v] # NULL
    /\ Commit(SetOpen(isOpen, v, NULL))
    /\ trace' = handleCloseCalls
    /\ last' = Op("close", v, "", NULL, FALSE, FALSE, NULL)
    /\ UNCHANGED <<phase, items, handlers, mounted, priorOverflow>>

\* ------------------------------------------------------- Lightbox.Root

Key == {"Escape", "ArrowRight", "ArrowLeft", "Enter"}

\* mutant: Escape leaves the closing to $onClose when it is passed
onKeydownInterceptOnly(key, prevented, hasOnClose, c, n) ==
    IF prevented \/ c = NULL \/ key # "Escape" THEN [calls |-> <<>>, index |-> NULL]
    ELSE [calls |-> IF hasOnClose THEN <<"$onClose">> ELSE <<"close">>,
          index |-> NULL]

\* What onKeydown asks for, given the key, whether the consumer's onKeyDown
\* left the event default-prevented, whether $onClose was passed, the
\* context's currentIndex c and the length n of the context's items:
\* the calls in order, and the index handed to setCurrentIndex (if any).
onKeydown(key, prevented, hasOnClose, c, n) ==
    IF prevented \/ c = NULL THEN [calls |-> <<>>, index |-> NULL]
    ELSE LET esc == IF key = "Escape"
                    THEN (IF hasOnClose THEN <<"$onClose">> ELSE <<>>) \o <<"close">>
                    ELSE <<>>
         IN  IF key = "ArrowRight"
             THEN [calls |-> esc \o (IF c + 1 >= n - 1 THEN <<"onLoadNext">> ELSE <<>>)
                                 \o <<"setCurrentIndex">>,
                   index |-> Min(c + 1, n - 1)]
             ELSE IF key = "ArrowLeft"
             THEN [calls |-> esc \o <<"setCurrentIndex">>, index |-> Max(c - 1, 0)]
             ELSE [calls |-> esc, index |-> NULL]

\* the calls of a handler with close() and setCurrentIndex() spelled out
RECURSIVE Expand(_)
Expand(calls) ==
    IF calls = <<>> THEN <<>>
    ELSE (IF Head(calls) = "close" THEN handleCloseCalls
          ELSE IF Head(calls) = "setCurrentIndex" THEN setIndexCalls
          ELSE <<Head(calls)>>) \o Expand(Tail(calls))

Has(calls, c) == \E i \in 1..Len(calls) : calls[i] = c

\* the isOpen value of the viewer after the requests of a handler
Requested(calls, index, cur) ==
    IF Has(calls, "setCurrentIndex") THEN setIndexNext(index, Len(items))
    ELSE IF Has(calls, "close") THEN NULL
    ELSE cur

\* a key-down event that reaches the Root of viewer v
KeyDown(v, key, prevented, hasOnClose) ==
    /\ phase = "idle"
    /\ isOpen[v] # NULL
    /\ hasOnClose => key = "Escape"      \* $onClose is read for Escape only
    /\ LET r == onKeydown(key, prevented, hasOnClose, isOpen[v], Len(ctxItems[v]))
       IN  /\ Commit(SetOpen(isOpen, v, Requested(r.calls, r.index, isOpen[v])))
           /\ trace' = Expand(r.calls)
    /\ last' = Op("keydown", v, key, NULL, prevented, hasOnClose, isOpen[v])
    /\ UNCHANGED <<phase, items, handlers, mounted, priorOverflow>>

\* onClickBackdrop: closes only when the click target is the Root itself
onClickBackdrop(onTarget) == IF onTarget THEN <<"close">> ELSE <<>>

ClickBackdrop(v, onTarget) ==
    /\ phase = "idle"
    /\ isOpen[v] # NULL
    /\ LET calls == onClickBackdrop(onTarget)
       IN  /\ Commit(SetOpen(isOpen, v, Requested(calls, NULL, isOpen[v])))
           /\ trace' = Expand(calls)
    /\ last' = Op("backdrop", v, "", NULL, ~onTarget, FALSE, NULL)
    /\ UNCHANGED <<phase, items, handlers, mounted, priorOverflow>>

\* Lightbox.Close: the consumer's onClick first, then context.close()
closeClick(prevented) == IF prevented THEN <<>> ELSE <<"close">>

ClickClose(v, prevented) ==
    /\ phase = "idle"
    /\ isOpen[v] # NULL
    /\ LET calls == closeClick(prevented)
       IN  /\ Commit(SetOpen(isOpen, v, Requested(calls, NULL, isOpen[v])))
           /\ trace' = Expand(calls)
    /\ last' = Op("closeButton", v, "", NULL, prevented, FALSE, NULL)
    /\ UNCHANGED <<phase, items, handlers, mounted, priorOverflow>>

\* --------------------------------------- Lightbox.Viewport, Lightbox.Item

\* The gesture model follows the Viewport, the Items and one Pinchable of a
\* single LightboxView, the first in tree order.
Solo == 1

\* at most this many release handlers are suspended at `await onLoadNext()`
MaxPending == 1

\* `[currentIndex - 1, currentIndex, currentIndex + 1].filter(...)`, with the
\* context's currentIndex c and the length n of the context's items
visibleIndices(c, n) == {i \in {c - 1, c, c + 1} : i >= 0 /\ i < n}

\* the item slots the Viewport of viewer v mounts (none while it is closed;
\* every registered item is truthy, so `if (!item) return null` drops none)
Slots(v) ==
    IF isOpen[v] = NULL THEN {}
    ELSE visibleIndices(isOpen[v], Len(ctxItems[v]))

\* `rootRef.current.clientWidth`, in pixels
clientWidth == 100
\* `initial: [ix]`: where a gesture may start (both sides of each boundary)
InitialX == {35, 36, 64, 65}
\* `movement: [mx]` and `direction: [xDir]` of a drag event. The gesture
\* library reports as direction the sign of the latest pointer delta (0 when
\* the pointer rested before the release), so it is independent of the sign
\* of the total movement.
Movement == {0 - 150, 0 - 100, 0, 100, 150}
Direction == {0 - 1, 0, 1}
\* how the consumer's onLoadNext completes: it returns (nothing, or a promise
\* already settled), it returns a promise settled later, or it throws
LoadNext == {"returns", "pending", "throws"}

Abs(x) == IF x < 0 THEN 0 - x ELSE x

\* `const threshold = 100` of the Item's drag handler
threshold == 100

\* `const edgeThreshold = width * 0.35`, in hundredths of a pixel
edgeThreshold(width) == 35 * width

\* mutant: the 20% band named in the source comment instead of 35%
cancelledAtTwentyPercent(ix, width) ==
    100 * ix > 20 * width /\ 100 * ix < 100 * width - 20 * width

\* `ix > edgeThreshold && ix < width - edgeThreshold`: the drag is cancelled
cancelled(ix, width) ==
    100 * ix > edgeThreshold(width) /\ 100 * ix < 100 * width - edgeThreshold(width)

\* mutant: the step follows the direction instead of opposing it
stepAlong(xDir) == IF xDir > 0 THEN 1 ELSE 0 - 1

\* `xDir < 0 ? 1 : -1`
step(xDir) == IF xDir < 0 THEN 1 ELSE 0 - 1

\* What the release branch of the drag handler asks for, given the movement,
\* the direction, the context's currentIndex c and the length n of the
\* context's items: whether it navigates, the tentative nextIndex, whether
\* onLoadNext is awaited first, and the index handed to setCurrentIndex.
release(mx, xDir, c, n) ==
    IF Abs(mx) > threshold
    THEN LET nextIndex == c + step(xDir)
         IN  [nav |-> TRUE, nextIndex |-> nextIndex,
              load |-> nextIndex >= n - 1,
              index |-> Min(Max(nextIndex, 0), n - 1)]
    ELSE [nav |-> FALSE, nextIndex |-> NULL, load |-> FALSE, index |-> NULL]

\* `last` of a drag handler: the event's initial x, movement and direction,
\* how onLoadNext completed, the tentative nextIndex, and before the handler
\* ran: the viewer's index, the length n of the context's items and the
\* length len of items.current
Gesture(op, ix, mx, xDir, load, next, prev, n, len) ==
    [op |-> op, v |-> Solo, ix |-> ix, mx |-> mx, xDir |-> xDir,
     load |-> load, next |-> next, prev |-> prev, n |-> n, len |-> len]

\* The Viewport and its Items are rendered only while the viewer is open:
\* closing unmounts them, the next open mounts new ones (offsetX 0), and
\* the setOffset a suspended handler holds then belongs to no mounted
\* Viewport.
ViewportAfter ==
    LET closed == isOpen'[Solo] = NULL
    IN  /\ offsetX' = IF closed THEN 0 ELSE offsetX
        /\ dragging' = (dragging /\ ~closed)
        /\ pending' = IF closed
                      THEN [i \in 1..Len(pending) |->
                               [pending[i] EXCEPT !.detached = TRUE]]
                      ELSE pending

\* the drag handler with down = true
DragDown(ix, mx) ==
    /\ phase = "idle"
    /\ isOpen[Solo] # NULL
    /\ dragging => ~cancelled(ix, clientWidth)   \* a gesture keeps its initial x
    /\ IF cancelled(ix, clientWidth)
       THEN /\ trace' = <<"cancel">>
            /\ UNCHANGED <<offsetX, dragging>>
       ELSE /\ trace' = <<"setOffset">>
            /\ offsetX' = mx
            /\ dragging' = TRUE
    /\ last' = Gesture("drag", ix, mx, 0, "none", NULL, isOpen[Solo],
                       Len(ctxItems[Solo]), Len(items))
    /\ UNCHANGED <<hookVars, pending, pinchVars>>

\* the drag handler with down = false, up to its return or its `await`
DragRelease(mx, xDir, load) ==
    /\ phase = "idle"
    /\ dragging
    /\ isOpen[Solo] # NULL
    /\ LET r == release(mx, xDir, isOpen[Solo], Len(ctxItems[Solo]))
           awaits == r.load /\ load = "pending"
           throws == r.load /\ load = "throws"
           done == ~awaits /\ ~throws
       IN  /\ load = "none" <=> ~r.load
           /\ awaits => Len(pending) < MaxPending
           /\ IF r.nav /\ done
              THEN Commit(SetOpen(isOpen, Solo, setIndexNext(r.index, Len(items))))
              ELSE UNCHANGED <<isOpen, ctxItems, original, bodyOverflow>>
           /\ offsetX' = IF done THEN 0 ELSE offsetX
           /\ pending' = IF awaits
                         THEN Append(pending, [index |-> r.index, next |-> r.nextIndex,
                                               len |-> Len(items), detached |-> FALSE])
                         ELSE pending
           /\ trace' = (IF r.load THEN <<"onLoadNext">> ELSE <<>>)
                         \o (IF r.nav /\ done THEN setIndexCalls ELSE <<>>)
                         \o (IF done THEN <<"setOffset">> ELSE <<>>)
           /\ last' = Gesture("release", NULL, mx, xDir, load, r.nextIndex,
                              isOpen[Solo], Len(ctxItems[Solo]), Len(items))
    /\ dragging' = FALSE
    /\ UNCHANGED <<phase, items, handlers, mounted, priorOverflow, pinchVars>>

\* the promise of onLoadNext settles and the suspended handler resumes
\* (fulfilled) or is abandoned (rejected)
LoadNextSettle(i, fulfilled) ==
    /\ phase = "idle"
    /\ i \in 1..Len(pending)
    /\ LET p == pending[i]
           resumes == fulfilled /\ mounted[Solo]
       IN  /\ IF resumes
              THEN Commit(SetOpen(isOpen, Solo, setIndexNext(p.index, Len(items))))
              ELSE UNCHANGED <<isOpen, ctxItems, original, bodyOverflow>>
           /\ offsetX' = IF fulfilled /\ ~p.detached THEN 0 ELSE offsetX
           /\ trace' = IF fulfilled THEN setIndexCalls \o <<"setOffset">> ELSE <<>>
           /\ last' = Gesture("settle", NULL, 0, 0,
                              IF fulfilled THEN "returns" ELSE "throws",
                              p.next, isOpen[Solo], Len(ctxItems[Solo]), p.len)
    /\ pending' = SubSeq(pending, 1, i - 1) \o SubSeq(pending, i + 1, Len(pending))
    /\ UNCHANGED <<phase, items, handlers, mounted, priorOverflow, dragging, pinchVars>>

\* ----------------------------------------------------- Lightbox.Pinchable

\* The Pinchable followed is the one the consumer renders inside the Item of
\* this index; its state lives while that Item slot is mounted.
PinchIndex == 0

\* `useState({ scale: 1, x: 0, y: 0 })`; scales are in tenths (10 is scale 1)
initialTransform == [scale |-> 10, x |-> 0, y |-> 0]

\* `offset: [s]` of a pinch event, in tenths (the rubberband lets it leave
\* scaleBounds), `offset: [ox, oy]` and `movement: [, my]` of a drag event
RawScale == {5, 10, 25, 40, 45}
Pan == {0, 30}
SwipeY == {0 - 50, 100, 120}

\* `const threshold = 100` of the Pinchable's onDrag
swipeThreshold == 100

\* mutant: the lower bound is dropped
newScaleNoFloor(s) == Min(s, 40)

\* `Math.max(1, Math.min(s, 4))`
newScale(s) == Max(10, Min(s, 40))

\* mutant: scale 1 is reported as zoomed
zoomChangeFromOne(scale) ==
    IF scale >= 10 THEN "onZoomChange(true)" ELSE "onZoomChange(false)"

\* `onZoomChange?.(newScale > 1)`
zoomChange(scale) ==
    IF scale > 10 THEN "onZoomChange(true)" ELSE "onZoomChange(false)"

\* mutant: the double-click resets the scale and keeps the pan
handleDoubleClickKeepsPan(t) ==
    [transform |-> [t EXCEPT !.scale = 10],
     calls |-> <<"stopPropagation", "setTransform", "onZoomChange(false)">>]

\* handleDoubleClick: the transform it sets and the calls it makes
handleDoubleClick(t) ==
    [transform |-> [scale |-> 10, x |-> 0, y |-> 0],
     calls |-> <<"stopPropagation", "setTransform", "onZoomChange(false)">>]

\* mutant: the close request does not wait for the release
swipeClosesWhileDown(down, my) == my > swipeThreshold

\* `if (down) {...} else { if (my > threshold) onRequestClose?.(...) }`
swipeCloses(down, my) == ~down /\ my > swipeThreshold

\* the value zoomReported holds after the calls of a handler
Reported(calls, before) ==
    IF Has(calls, "onZoomChange(true)") THEN "zoomed"
    ELSE IF Has(calls, "onZoomChange(false)") THEN "unzoomed"
    ELSE before

\* `last` of a Pinchable handler: the raw scale of a pinch, `down`, `my` and
\* `pinching` of a drag, the key of a key press, and before the handler ran:
\* the viewer's index and the transform
Touch(op, s, down, my, pinching, key) ==
    [op |-> op, v |-> Solo, s |-> s, down |-> down, my |-> my,
     pinching |-> pinching, key |-> key, prev |-> isOpen[Solo],
     from |-> transform]

\* the Pinchable is mounted in the slot of the current item
PinchableShown ==
    /\ phase = "idle"
    /\ isOpen[Solo] = PinchIndex
    /\ PinchIndex \in Slots(Solo)

\* The Pinchable unmounts with its Item slot: when the viewer closes or the
\* window moves away from the slot; the next mount starts from the initial
\* state.
PinchableAfter ==
    IF isOpen'[Solo] # NULL
       /\ PinchIndex \in visibleIndices(isOpen'[Solo], Len(ctxItems'[Solo]))
    THEN UNCHANGED pinchVars
    ELSE /\ transform' = initialTransform
         /\ swipeOffsetY' = 0
         /\ pinchDown' = FALSE
         /\ zoomReported' = "none"

\* `onRequestClose` is connected to the context's close(), as the README
\* prescribes
onRequestClose ==
    /\ Commit(SetOpen(isOpen, Solo, NULL))
    /\ ViewportAfter
    /\ PinchableAfter

\* onPinch
Pinch(s) ==
    /\ PinchableShown
    /\ transform' = [scale |-> newScale(s), x |-> 0, y |-> 0]
    /\ trace' = <<"preventDefault", "setTransform", zoomChange(newScale(s))>>
    /\ zoomReported' = Reported(trace', zoomReported)
    /\ last' = Touch("pinch", s, FALSE, NULL, FALSE, "")
    /\ UNCHANGED <<hookVars, dragVars, swipeOffsetY, pinchDown>>

\* mutant: the zoomed branch is chosen before the pinch is looked at
onDragBranchZoomFirst(pinching, scale) ==
    IF scale > 10 THEN "pan" ELSE IF pinching THEN "cancel" ELSE "swipe"

\* the branch onDrag takes: `if (pinching) return cancel()`, then
\* `if (scale > 1) {...} else {...}`
onDragBranch(pinching, scale) ==
    IF pinching THEN "cancel" ELSE IF scale > 10 THEN "pan" ELSE "swipe"

\* onDrag
PinchableDrag(down, pinching, ox, oy, my) ==
    /\ PinchableShown
    /\ ~down => pinchDown               \* a release ends a gesture in progress
    /\ LET scale == transform.scale
           stop == IF scale # 10 THEN <<"stopPropagation">> ELSE <<>>
           branch == onDragBranch(pinching, scale)
           closes == branch = "swipe" /\ swipeCloses(down, my)
       IN  /\ IF closes
              THEN onRequestClose
              ELSE /\ UNCHANGED <<isOpen, ctxItems, original, bodyOverflow,
                                  dragVars, zoomReported>>
                   /\ transform' = IF branch = "pan"
                                   THEN [scale |-> scale, x |-> ox, y |-> oy]
                                   ELSE transform
                   /\ swipeOffsetY' = IF branch # "swipe" THEN swipeOffsetY
                                      ELSE IF down THEN Max(0, my) ELSE 0
                   /\ pinchDown' = (~pinching /\ down)
           /\ trace' = stop \o
                (IF branch = "cancel" THEN <<"cancel">>
                 ELSE IF branch = "pan" THEN <<"setTransform">>
                 ELSE (IF closes THEN <<"onRequestClose">> \o handleCloseCalls
                       ELSE <<>>) \o <<"setSwipeOffsetY">>)
           /\ last' = Touch("pinchDrag", NULL, down,
                            IF scale > 10 THEN NULL ELSE my, pinching, "")
    /\ UNCHANGED <<phase, items, handlers, mounted, priorOverflow>>

\* handleDoubleClick
DoubleClick ==
    /\ PinchableShown
    /\ LET h == handleDoubleClick(transform)
       IN  /\ transform' = h.transform
           /\ trace' = h.calls
    /\ zoomReported' = Reported(trace', zoomReported)
    /\ last' = Touch("doubleClick", NULL, FALSE, NULL, FALSE, "")
    /\ UNCHANGED <<hookVars, dragVars, swipeOffsetY, pinchDown>>

\* handleClick; the click then bubbles to the Root, whose onClickBackdrop
\* ignores it (its target is not the Root)
PinchableClick(onTarget) ==
    /\ PinchableShown
    /\ LET closes == transform.scale = 10 /\ onTarget
       IN  /\ IF closes
              THEN onRequestClose
              ELSE UNCHANGED <<isOpen, ctxItems, original, bodyOverflow,
                               dragVars, pinchVars>>
           /\ trace' = IF closes THEN <<"onRequestClose">> \o handleCloseCalls
                       ELSE <<>>
    /\ last' = Touch("pinchClick", NULL, FALSE, NULL, ~onTarget, "")
    /\ UNCHANGED <<phase, items, handlers, mounted, priorOverflow>>

\* handleKeyDown stops the propagation of an arrow key while scale is not 1
stopsKey(scale, key) == scale # 10 /\ key \in {"ArrowLeft", "ArrowRight"}

\* a key-down event whose target is inside the Pinchable: handleKeyDown, and
\* unless it stopped the propagation the Root's onKeydown
PinchableKeyDown(key, prevented) ==
    /\ PinchableShown
    /\ IF stopsKey(transform.scale, key)
       THEN /\ ~prevented
            /\ trace' = <<"stopPropagation">>
            /\ last' = Touch("pinchKeyDown", NULL, FALSE, NULL, FALSE, key)
            /\ UNCHANGED <<hookVars, dragVars, pinchVars>>
       ELSE /\ KeyDown(Solo, key, prevented, FALSE)
            /\ ViewportAfter
            /\ PinchableAfter

\* ------------------------------------------------------ useContextStrict

\* the composition primitives and the read hook
Primitive == {"Root", "Header", "Close", "Viewport", "Item", "Pinchable",
              "useLightboxState"}

\* a context value a primitive may find: null (no provider above it), or the
\* value of a provider with its currentIndex and the length of its items
NoContext == [present |-> FALSE, currentIndex |-> NULL, n |-> 0]
ContextValue ==
    {NoContext} \cup
    {[present |-> TRUE, currentIndex |-> c, n |-> n] :
         c \in {NULL} \cup (0..(MaxItems - 1)), n \in 0..MaxItems}

\* mutant: Close takes the context without the strict check
readsExceptClose(primitive) ==
    IF primitive \in {"Root", "Viewport", "useLightboxState"}
    THEN <<"LightboxContext">>
    ELSE IF primitive = "Item" THEN <<"LightboxContext", "LightboxDragContext">>
    ELSE <<>>

\* the contexts a primitive reads through useContextStrict, in order
reads(primitive) ==
    IF primitive \in {"Root", "Close", "Viewport", "useLightboxState"}
    THEN <<"LightboxContext">>
    ELSE IF primitive = "Item" THEN <<"LightboxContext", "LightboxDragContext">>
    ELSE <<>>

\* `if (!context) throw new Error(...)`
useContextStrict(present) == IF present THEN "ok" ELSE "throws"

\* What rendering a primitive gives, under a LightboxContext value and with
\* or without a LightboxDragContext provider: it throws at the first context
\* that is missing; Viewport and Item return null while currentIndex is null.
renderOutcome(primitive, ctx, hasDrag) ==
    LET missing == {k \in 1..Len(reads(primitive)) :
                       useContextStrict(IF reads(primitive)[k] = "LightboxContext"
                                        THEN ctx.present ELSE hasDrag) = "throws"}
    IN  IF missing # {} THEN "throws"
        ELSE IF primitive \in {"Viewport", "Item"} /\ ctx.currentIndex = NULL
        THEN "null"
        ELSE "renders"

\* a primitive is rendered somewhere in the consumer's tree
Render(primitive, ctx, hasDrag) ==
    /\ last' = [op |-> "render", v |-> 0, primitive |-> primitive, ctx |-> ctx,
                drag |-> hasDrag,
                outcome |-> renderOutcome(primitive, ctx, hasDrag)]
    /\ trace' = IF renderOutcome(primitive, ctx, hasDrag) = "throws"
                THEN <<"throw">> ELSE <<>>
    /\ UNCHANGED <<hookVars, dragVars, pinchVars>>

\* ------------------------------------ a Pinchable nested in its Item slot

\* The events the Item's useDrag listens to: with `pointer: { touch: true }`
\* touch events on a touch screen, pointer events elsewhere. The Pinchable's
\* useGesture listens to pointer events on its own element.
Device == {"pointer", "touch"}

\* Whether an event of a drag on the Pinchable is seen by the enclosing
\* Item's drag handler: `if (scale !== 1) event.stopPropagation()` stops the
\* pointer event the Pinchable handles before it bubbles to the Item; the
\* touch events of the same contact are other events and are not stopped.
reachesItem(device, scale) == device = "touch" \/ scale = 10

\* the gesture offsets, initial x and horizontal movements of the events
\* followed on a zoomed Pinchable
PanTo == {<<0, 30>>, <<30, 0>>}
EdgeOrCentre == {35, 36}
Swipe == {0 - 150, 100}

\* `last` of an event of a drag on a nested Pinchable: the device, `down`,
\* the gesture offset, the initial x, the horizontal movement and direction,
\* how onLoadNext completed, and before the event: the viewer's index and
\* the transform
Pointer(op, device, down, ox, oy, ix, mx, xDir, load) ==
    [op |-> op, v |-> Solo, device |-> device, down |-> down, ox |-> ox,
     oy |-> oy, ix |-> ix, mx |-> mx, xDir |-> xDir, load |-> load,
     prev |-> isOpen[Solo], from |-> transform]

\* One event of a drag, with no pinch active, on a zoomed Pinchable rendered
\* inside the Item of its slot: the Pinchable's onDrag pans, and the Item's
\* drag handler runs if the event reaches it. onLoadNext here completes
\* before the next event.
ZoomedDrag(device, down, ox, oy, ix, mx, xDir, load) ==
    /\ PinchableShown
    /\ transform.scale > 10
    /\ ~down => pinchDown
    /\ LET reaches == reachesItem(device, transform.scale)
           gated == cancelled(ix, clientWidth)
           r == release(mx, xDir, isOpen[Solo], Len(ctxItems[Solo]))
           moves == reaches /\ down /\ ~gated
           lifts == reaches /\ ~down /\ dragging
           done == load # "throws"
       IN  /\ (reaches /\ down /\ dragging) => ~gated
           /\ load = "none" <=> ~(lifts /\ r.load)
           /\ IF lifts /\ r.nav /\ done
              THEN Commit(SetOpen(isOpen, Solo, setIndexNext(r.index, Len(items))))
              ELSE UNCHANGED <<isOpen, ctxItems, original, bodyOverflow>>
           /\ offsetX' = IF moves THEN mx
                         ELSE IF lifts /\ done THEN 0
                         ELSE offsetX
           /\ dragging' = IF moves THEN TRUE
                          ELSE IF lifts THEN FALSE
                          ELSE dragging
           /\ IF PinchIndex \in visibleIndices(isOpen'[Solo], Len(ctxItems'[Solo]))
              THEN /\ transform' = [scale |-> transform.scale, x |-> ox, y |-> oy]
                   /\ pinchDown' = down
                   /\ UNCHANGED <<swipeOffsetY, zoomReported>>
              ELSE PinchableAfter
           /\ trace' = <<"stopPropagation", "setTransform">>
                \o (IF reaches /\ down /\ gated THEN <<"cancel">> ELSE <<>>)
                \o (IF moves THEN <<"setOffset">> ELSE <<>>)
                \o (IF lifts /\ r.load THEN <<"onLoadNext">> ELSE <<>>)
                \o (IF lifts /\ r.nav /\ done THEN setIndexCalls ELSE <<>>)
                \o (IF lifts /\ done THEN <<"setOffset">> ELSE <<>>)
    /\ last' = Pointer("zoomedDrag", device, down, ox, oy, ix, mx, xDir, load)
    /\ UNCHANGED <<phase, items, handlers, mounted, priorOverflow, pending>>

\* ------------------------------------------------------------ useConcatRef

MaxRefs == 2           \* most consumer refs merged into one
MaxAssign == 3         \* most assignments of a handle to one merged ref

\* A consumer ref: null or undefined ("none"), a callback ref that returns
\* nothing ("callback"), a callback ref that returns a cleanup function
\* ("cleanup"), or an object ref ("object").
RefKind == {"none", "callback", "cleanup", "object"}
RefLists == UNION {[1..n -> RefKind] : n \in 0..MaxRefs}

\* the handles assigned to the merged ref
Handle == {1, 2}

\* The object of one memo computation: `current` and `disposers` of the
\* closure, and for every consumer the handle it holds or received last,
\* the number of cleanup functions it returned and the number of times a
\* cleanup function it returned was invoked.
NewRef(refs) ==
    [refs |-> refs, current |-> NULL, disposers |-> <<>>,
     held |-> [i \in 1..Len(refs) |-> NULL],
     returned |-> [i \in 1..Len(refs) |-> 0],
     invoked |-> [i \in 1..Len(refs) |-> 0],
     assigns |-> 0]

\* What `ref(value)` returns: the consumer whose cleanup function it is, or
\* 0 for undefined
refReturns(refs, i) == IF refs[i] = "cleanup" THEN i ELSE 0

\* `for (const ref of refs) {...}` from consumer i on: callback refs are
\* called and `() => disposer` is pushed, object refs are assigned
RECURSIVE fanOut(_, _, _)
fanOut(m, value, i) ==
    IF i > Len(m.refs) THEN m
    ELSE IF m.refs[i] = "none" THEN fanOut(m, value, i + 1)
    ELSE IF m.refs[i] \in {"callback", "cleanup"}
    THEN fanOut([m EXCEPT !.held[i] = value,
                          !.returned[i] = @ + (IF m.refs[i] = "cleanup" THEN 1 ELSE 0),
                          !.disposers = Append(@, refReturns(m.refs, i))],
                value, i + 1)
    ELSE fanOut([m EXCEPT !.held[i] = value], value, i + 1)

\* The cleanup functions invoked by `disposer?.()` for the entry pushed for
\* what a callback returned: the entry is `() => disposer`, which returns
\* the cleanup function and does not call it.
disposerInvokes(returns) == {}

\* `for (const disposer of disposers) disposer?.()` from entry k on
RECURSIVE dispose(_, _)
dispose(m, k) ==
    IF k > Len(m.disposers) THEN m
    ELSE dispose([m EXCEPT !.invoked =
                      [i \in 1..Len(m.refs) |->
                          IF i \in disposerInvokes(m.disposers[k])
                          THEN m.invoked[i] + 1 ELSE m.invoked[i]]],
                 k + 1)

\* `set current(value)`
setCurrent(m, value) ==
    LET m1 == [m EXCEPT !.current = value]
    IN  IF value = NULL
        THEN [dispose(m1, 1) EXCEPT !.disposers = <<>>]
        ELSE fanOut([m1 EXCEPT !.assigns = @ + 1], value, 1)

\* the calls `set current(value)` makes
RECURSIVE setCurrentCalls(_, _, _)
setCurrentCalls(m, value, i) ==
    IF value = NULL
    THEN [k \in 1..Len(m.disposers) |-> "disposer"]
    ELSE IF i > Len(m.refs) THEN <<>>
    ELSE (IF m.refs[i] \in {"callback", "cleanup"} THEN <<"ref">> ELSE <<>>)
             \o setCurrentCalls(m, value, i + 1)

\* useConcatRef(...refs) while no handle is attached: the memo is computed
\* for these refs and returns a new object
UseConcatRef(refs) ==
    /\ merged.current = NULL
    /\ merged' = NewRef(refs)
    /\ last' = [op |-> "useConcatRef", v |-> 0, value |-> NULL]
    /\ trace' = <<>>
    /\ UNCHANGED <<hookVars, dragVars, pinchVars, portalVars>>

\* the merged ref is assigned a handle, or null when the handle is released
SetCurrent(value) ==
    /\ value # NULL => merged.assigns < MaxAssign
    /\ merged' = setCurrent(merged, value)
    /\ last' = [op |-> "setCurrent", v |-> 0, value |-> value]
    /\ trace' = setCurrentCalls(merged, value, 1)
    /\ UNCHANGED <<hookVars, dragVars, pinchVars, portalVars>>

Init ==
    /\ phase = "render"
    /\ items = <<>>
    /\ handlers = <<>>
    /\ mounted = [v \in Viewer |-> FALSE]
    /\ isOpen = [v \in Viewer |-> NULL]
    /\ ctxItems = [v \in Viewer |-> <<>>]
    /\ original = [v \in Viewer |-> NoEffect]
    /\ bodyOverflow \in {"", "scroll"}
    /\ priorOverflow = bodyOverflow
    /\ last = NoOp
    /\ trace = <<>>
    /\ offsetX = 0
    /\ dragging = FALSE
    /\ pending = <<>>
    /\ transform = [scale |-> 10, x |-> 0, y |-> 0]
    /\ swipeOffsetY = 0
    /\ pinchDown = FALSE
    /\ zoomReported = "none"
    /\ container = [v \in Viewer |-> NULL]
    /\ body = {}
    /\ merged = NewRef(<<>>)

\* The hook with its viewers and their Roots; no gesture is made.
Next ==
    \/ RenderBegin /\ UNCHANGED <<dragVars, pinchVars>>
          /\ PortalAfter /\ UNCHANGED merged
    \/ GetOnClick /\ UNCHANGED <<dragVars, pinchVars>>
          /\ PortalAfter /\ UNCHANGED merged
    \/ RenderEnd /\ UNCHANGED <<dragVars, pinchVars>>
          /\ PortalAfter /\ UNCHANGED merged
    \/ \E v \in Viewer : Mount(v) /\ UNCHANGED <<dragVars, pinchVars>>
          /\ PortalAfter /\ UNCHANGED merged
    \/ \E v \in Viewer : Unmount(v) /\ UNCHANGED <<dragVars, pinchVars>>
          /\ PortalAfter /\ UNCHANGED merged
    \/ \E h \in 1..MaxItems, c, p \in BOOLEAN :
          ClickItem(h, c, p) /\ UNCHANGED <<dragVars, pinchVars>>
          /\ PortalAfter /\ UNCHANGED merged
    \/ \E v \in Viewer, i \in IndexArg :
          SetCurrentIndex(v, i) /\ UNCHANGED <<dragVars, pinchVars>>
          /\ PortalAfter /\ UNCHANGED merged
    \/ \E v \in Viewer, u \in Updater :
          SetCurrentIndexFn(v, u) /\ UNCHANGED <<dragVars, pinchVars>>
          /\ PortalAfter /\ UNCHANGED merged
    \/ \E v \in Viewer : Close(v) /\ UNCHANGED <<dragVars, pinchVars>>
          /\ PortalAfter /\ UNCHANGED merged
    \/ \E v \in Viewer, k \in Key, p, c \in BOOLEAN :
          KeyDown(v, k, p, c) /\ UNCHANGED <<dragVars, pinchVars>>
          /\ PortalAfter /\ UNCHANGED merged
    \/ \E v \in Viewer, t \in BOOLEAN :
          ClickBackdrop(v, t) /\ UNCHANGED <<dragVars, pinchVars>>
          /\ PortalAfter /\ UNCHANGED merged
    \/ \E v \in Viewer, p \in BOOLEAN :
          ClickClose(v, p) /\ UNCHANGED <<dragVars, pinchVars>>
          /\ PortalAfter /\ UNCHANGED merged

Spec == Init /\ [][Next]_vars

\* One viewer, opened by item clicks and closed through the context, with
\* the drag gestures on its Items.
NextDrag ==
    \/ RenderBegin /\ UNCHANGED <<dragVars, pinchVars>>
          /\ PortalAfter /\ UNCHANGED merged
    \/ GetOnClick /\ UNCHANGED <<dragVars, pinchVars>>
          /\ PortalAfter /\ UNCHANGED merged
    \/ RenderEnd /\ UNCHANGED <<dragVars, pinchVars>>
          /\ PortalAfter /\ UNCHANGED merged
    \/ Mount(Solo) /\ UNCHANGED <<dragVars, pinchVars>>
          /\ PortalAfter /\ UNCHANGED merged
    \/ \E h \in 1..MaxItems :
          ClickItem(h, FALSE, FALSE) /\ ViewportAfter /\ UNCHANGED pinchVars
          /\ PortalAfter /\ UNCHANGED merged
    \/ Close(Solo) /\ ViewportAfter /\ UNCHANGED pinchVars
          /\ PortalAfter /\ UNCHANGED merged
    \/ \E ix \in InitialX, mx \in Movement : DragDown(ix, mx)
          /\ PortalAfter /\ UNCHANGED merged
    \/ \E mx \in Movement, d \in Direction, l \in LoadNext \cup {"none"} :
          DragRelease(mx, d, l)
          /\ PortalAfter /\ UNCHANGED merged
    \/ \E i \in 1..MaxPending, f \in BOOLEAN : LoadNextSettle(i, f)
          /\ PortalAfter /\ UNCHANGED merged

\* the gestures are followed on a page whose body has no overflow style
InitGesture == Init /\ bodyOverflow = ""

SpecDrag == InitGesture /\ [][NextDrag]_vars

\* One viewer, opened by item clicks, closed through the context, with key
\* presses on the focused Root and the gestures, clicks and key presses on
\* the Pinchable.
NextPinch ==
    \/ RenderBegin /\ UNCHANGED <<dragVars, pinchVars>>
          /\ PortalAfter /\ UNCHANGED merged
    \/ GetOnClick /\ UNCHANGED <<dragVars, pinchVars>>
          /\ PortalAfter /\ UNCHANGED merged
    \/ RenderEnd /\ UNCHANGED <<dragVars, pinchVars>>
          /\ PortalAfter /\ UNCHANGED merged
    \/ Mount(Solo) /\ UNCHANGED <<dragVars, pinchVars>>
          /\ PortalAfter /\ UNCHANGED merged
    \/ \E h \in 1..MaxItems :
          ClickItem(h, FALSE, FALSE) /\ ViewportAfter /\ PinchableAfter
          /\ PortalAfter /\ UNCHANGED merged
    \/ Close(Solo) /\ ViewportAfter /\ PinchableAfter
          /\ PortalAfter /\ UNCHANGED merged
    \/ \E k \in Key, p \in BOOLEAN :
          KeyDown(Solo, k, p, FALSE) /\ ViewportAfter /\ PinchableAfter
          /\ PortalAfter /\ UNCHANGED merged
    \/ \E s \in RawScale : Pinch(s)
          /\ PortalAfter /\ UNCHANGED merged
    \/ \E d, p \in BOOLEAN, ox, oy \in Pan, my \in SwipeY :
          PinchableDrag(d, p, ox, oy, my)
          /\ PortalAfter /\ UNCHANGED merged
    \/ DoubleClick
          /\ PortalAfter /\ UNCHANGED merged
    \/ \E t \in BOOLEAN : PinchableClick(t)
          /\ PortalAfter /\ UNCHANGED merged
    \/ \E k \in Key, p \in BOOLEAN : PinchableKeyDown(k, p)
          /\ PortalAfter /\ UNCHANGED merged

SpecPinch == InitGesture /\ [][NextPinch]_vars

\* One viewer whose Items each wrap a Pinchable: opened by item clicks,
\* closed through the context, zoomed by pinches and dragged while zoomed.
NextZoom ==
    \/ RenderBegin /\ UNCHANGED <<dragVars, pinchVars>>
          /\ PortalAfter /\ UNCHANGED merged
    \/ GetOnClick /\ UNCHANGED <<dragVars, pinchVars>>
          /\ PortalAfter /\ UNCHANGED merged
    \/ RenderEnd /\ UNCHANGED <<dragVars, pinchVars>>
          /\ PortalAfter /\ UNCHANGED merged
    \/ Mount(Solo) /\ UNCHANGED <<dragVars, pinchVars>>
          /\ PortalAfter /\ UNCHANGED merged
    \/ \E h \in 1..MaxItems :
          ClickItem(h, FALSE, FALSE) /\ ViewportAfter /\ PinchableAfter
          /\ PortalAfter /\ UNCHANGED merged
    \/ Close(Solo) /\ ViewportAfter /\ PinchableAfter
          /\ PortalAfter /\ UNCHANGED merged
    \/ \E s \in RawScale : Pinch(s)
          /\ PortalAfter /\ UNCHANGED merged
    \/ \E dev \in Device, d \in BOOLEAN, o \in PanTo, ix \in EdgeOrCentre,
          mx \in Swipe, xd \in Direction \ {0},
          l \in {"none", "returns", "throws"} :
          ZoomedDrag(dev, d, o[1], o[2], ix, mx, xd, l)
          /\ PortalAfter /\ UNCHANGED merged

SpecZoom == InitGesture /\ [][NextZoom]_vars

\* The primitives rendered under every context value, one render per step.
NextRender ==
    \E p \in Primitive, c \in ContextValue, d \in BOOLEAN : Render(p, c, d)
          /\ PortalAfter /\ UNCHANGED merged

SpecRender == InitGesture /\ [][NextRender]_vars

\* A merged ref over every list of consumers, assigned and released.
NextRef ==
    \/ \E refs \in RefLists : UseConcatRef(refs)
    \/ \E value \in Handle \cup {NULL} : SetCurrent(value)

SpecRef == InitGesture /\ [][NextRef]_vars

\* ------------------------------------------------------------ properties

Count(calls, c) == Cardinality({i \in 1..Len(calls) : calls[i] = c})

\* the visibility notifications among the calls of a handler
Notifications(calls) ==
    SelectSeq(calls, LAMBDA c : c \in {"onVisibilityChange(true)",
                                       "onVisibilityChange(false)"})

\* every occurrence of call a comes before every occurrence of call b
Precedes(calls, a, b) ==
    \A i, j \in 1..Len(calls) : (calls[i] = a /\ calls[j] = b) => i < j

InRange(i, len) == 0 <= i /\ i < len

\* C1: in every settled state each viewer's current index is null or an
\* integer i with 0 <= i < length(items).
C1_IndexInRange ==
    phase = "idle" =>
        \A v \in Viewer : isOpen[v] = NULL \/ InRange(isOpen[v], Len(items))

\* C2: setCurrentIndex with an integer (or an updater returning one) leaves
\* the current index in [0, length-1], whatever the list length is; with
\* null it leaves it null.
C2_SetCurrentIndexInRange ==
    last.op = "setCurrentIndex" =>
        IF last.arg = NULL THEN isOpen[last.v] = NULL
        ELSE InRange(isOpen[last.v], Len(items))

\* C3: a click handler invoked without default-prevention sets the current
\* index of every mounted viewer to the position its item has in the item
\* list and fires visibility-changed(true) for each of them; unmounted
\* viewers are not touched.
C3_ClickOpensEveryMountedViewer ==
    (last.op = "click" /\ ~last.prevented) =>
        /\ \A v \in Viewer : mounted[v] =>
              /\ InRange(isOpen[v], Len(items))
              /\ items[isOpen[v] + 1] = Catalogue(last.arg + 1)
        /\ \A v \in Viewer : ~mounted[v] => isOpen[v] = NULL
        /\ Count(trace, "onVisibilityChange(true)") = Cardinality(setOpens)
        /\ Count(trace, "onVisibilityChange(false)") = 0

\* C3 witness: the handler of the second item ran with one viewer mounted
\* and another one unmounted
C3_Witness ==
    /\ last.op = "click" /\ ~last.prevented /\ last.arg = 1
    /\ \E v, w \in Viewer : mounted[v] /\ isOpen[v] = 1 /\ ~mounted[w]
    /\ Has(trace, "onVisibilityChange(true)")

\* C4 (as stated): all mounted viewers hold the same current index (or are
\* all closed) in every reachable state.
C4_OneSharedIndex ==
    \A v, w \in Viewer : (mounted[v] /\ mounted[w]) => isOpen[v] = isOpen[w]

\* the operations performed through one viewer
ViewerOps == {"setCurrentIndex", "close", "keydown", "backdrop", "closeButton"}

\* C4 (amended): each viewer holds its own current index. A click handler
\* sets all mounted viewers to one index, but an index change or close
\* performed through one viewer changes that viewer's index only.
C4_IndexIsPerViewer ==
    [][ /\ last'.op \in ViewerOps =>
              \A w \in Viewer \ {last'.v} : isOpen'[w] = isOpen[w]
        /\ (last'.op = "click" /\ ~last'.prevented) =>
              \A v, w \in Viewer :
                  (mounted'[v] /\ mounted'[w]) => isOpen'[v] = isOpen'[w]
      ]_vars

\* C4 witness: one viewer was closed while another one stays open
C4_Witness ==
    /\ last.op \in {"close", "keydown", "backdrop", "closeButton"}
    /\ isOpen[last.v] = NULL
    /\ \E w \in Viewer \ {last.v} : mounted[w] /\ isOpen[w] # NULL

\* C5: setCurrentIndex(null) closes the viewer and fires
\* visibility-changed(false), exactly as close() does: same resulting index,
\* same sequence of visibility notifications.
C5_SetNullIsClose ==
    (last.op = "setCurrentIndex" /\ last.arg = NULL) =>
        /\ isOpen[last.v] = NULL
        /\ Notifications(trace) = Notifications(handleCloseCalls)

\* C6: with scroll suppression enabled, in every settled state in which some
\* viewer is open the body overflow is "hidden".
C6_ScrollLockedWhileOpen ==
    (phase = "idle" /\ preventScrollWhileOpen
        /\ \E v \in Viewer : isOpen[v] # NULL) => bodyOverflow = "hidden"

\* C7: once every viewer is closed or unmounted the body overflow equals
\* the value it had before the first viewer opened.
C7_ScrollRestoredWhenAllClosed ==
    (\A v \in Viewer : isOpen[v] = NULL) => bodyOverflow = priorOverflow

\* an arrow-key press handled by the Root of an open viewer whose index is
\* a valid index of the item list
KeyHandled(key) ==
    /\ last.op = "keydown" /\ last.key = key /\ ~last.prevented
    /\ InRange(last.prev, Len(items))

\* C8: ArrowRight at index c with item-list length n invokes load-next
\* exactly once if c + 1 >= n - 1 and not at all otherwise, and before the
\* index is updated.
C8_ArrowRightLoadNext ==
    KeyHandled("ArrowRight") =>
        /\ Count(trace, "onLoadNext") =
              (IF last.prev + 1 >= Len(items) - 1 THEN 1 ELSE 0)
        /\ Count(trace, "setOpen") = 1
        /\ Precedes(trace, "onLoadNext", "setOpen")

\* C9: at index c with item-list length n, ArrowRight sets the index to
\* min(c + 1, n - 1) and ArrowLeft to max(c - 1, 0); ArrowLeft never invokes
\* load-next; any other key but Escape leaves the index unchanged.
C9_ArrowKeysMove ==
    /\ KeyHandled("ArrowRight") =>
          isOpen[last.v] = Min(last.prev + 1, Len(items) - 1)
    /\ KeyHandled("ArrowLeft") =>
          /\ isOpen[last.v] = Max(last.prev - 1, 0)
          /\ ~Has(trace, "onLoadNext")
    /\ KeyHandled("Enter") => isOpen[last.v] = last.prev

\* C10 (as stated): after an Escape key-down at the Root of an open viewer
\* the current index is null and visibility-changed(false) has fired, in
\* every case.
C10_EscapeAlwaysCloses ==
    (last.op = "keydown" /\ last.key = "Escape") =>
        /\ isOpen[last.v] = NULL
        /\ Has(trace, "onVisibilityChange(false)")

\* C10 (amended): an Escape key-down that is not default-prevented invokes
\* $onClose (when passed) first and then closes the viewer whatever
\* $onClose did: the index is null and visibility-changed(false) has fired
\* once; a default-prevented Escape calls nothing and leaves the index as
\* it was.
C10_EscapeClosesUnlessPrevented ==
    (last.op = "keydown" /\ last.key = "Escape") =>
        IF last.prevented
        THEN isOpen[last.v] = last.prev /\ trace = <<>>
        ELSE /\ isOpen[last.v] = NULL
             /\ Count(trace, "onVisibilityChange(false)") = 1
             /\ Count(trace, "$onClose") = (IF last.cb THEN 1 ELSE 0)
             /\ Precedes(trace, "$onClose", "setOpen")
             /\ Precedes(trace, "$onClose", "onVisibilityChange(false)")

\* C10 witness: Escape with $onClose passed closed an open viewer
C10_Witness ==
    /\ last.op = "keydown" /\ last.key = "Escape" /\ ~last.prevented /\ last.cb
    /\ last.prev # NULL /\ isOpen[last.v] = NULL
    /\ trace = <<"$onClose", "setOpen", "onVisibilityChange(false)">>


\* the index a release leaves when the step is taken from the sign of the
\* movement: a leftward drag (mx < 0) shows the next item
MovedTo(c, mx, len) == Min(Max(c + (IF mx < 0 THEN 1 ELSE 0 - 1), 0), len - 1)

\* C11: on a drag release with horizontal movement mx the index is unchanged
\* and load-next is not invoked if |mx| <= 100; if |mx| > 100 the index
\* changes by exactly one step (none when clamped), the sign of the step is
\* determined by the sign of mx alone, and the result is within
\* [0, length-1].  (Stated for releases that ran to their end with the
\* context's list up to date.)
C11_StepFollowsMovement ==
    (/\ last.op = "release"
     /\ last.load \in {"none", "returns"}
     /\ InRange(last.prev, last.len)
     /\ last.n = last.len) =>
        IF Abs(last.mx) <= threshold
        THEN isOpen[Solo] = last.prev /\ ~Has(trace, "onLoadNext")
        ELSE isOpen[Solo] = MovedTo(last.prev, last.mx, last.len)

\* a drag to the right by 150px, released at index 1 of 3 items
DragRightAtOneOfThree ==
    /\ last.op = "release"
    /\ last.len = 3 /\ last.prev = 1
    /\ last.mx = 150 /\ last.xDir = 1

\* C12 as stated: with 3 items and the viewer open at index 1, a drag to the
\* right by 150px (positive movement and direction) that is released makes
\* the current index 2 and fires load-next.
C12_DragRightShowsNext ==
    DragRightAtOneOfThree => (isOpen[Solo] = 2 /\ Has(trace, "onLoadNext"))

\* C12 amended: with 3 items and the viewer open at index 1, a drag to the
\* right by 150px (positive movement and direction) that is released makes
\* the current index 0 and does not fire load-next.
C12_DragRightShowsPrevious ==
    DragRightAtOneOfThree => (isOpen[Solo] = 0 /\ ~Has(trace, "onLoadNext"))

C12_Witness ==
    DragRightAtOneOfThree /\ isOpen[Solo] = 0 /\ Has(trace, "setOpen")

\* C13: on a release beyond the threshold from index c with list length n,
\* load-next is invoked exactly if the tentative index (c+1 or c-1) is
\* >= n-1, and then the index is set only after it has completed; the index
\* finally set is the tentative index clamped to [0, n-1].
C13_LoadNextBeforeIndex ==
    (/\ last.op \in {"release", "settle"}
     /\ last.next # NULL
     /\ last.load \in {"none", "returns"}
     /\ InRange(last.prev, last.len)) =>
        /\ IF last.op = "release"
           THEN Has(trace, "onLoadNext") <=> last.next >= last.len - 1
           ELSE last.next >= last.len - 1
        /\ Precedes(trace, "onLoadNext", "setOpen")
        /\ isOpen[Solo] = Min(Max(last.next, 0), last.len - 1)

C15_OffsetZeroAtRest ==
    (~dragging /\ pending = <<>>) => offsetX = 0

\* C16: the item slots a viewport mounts are exactly {c-1, c, c+1}
\* intersected with [0, length-1] of the item list: never more than 3,
\* never one for an invalid index, and none when the viewer is closed.
C16_WindowOfThree ==
    phase = "idle" =>
        \A v \in Viewer :
            Slots(v) = IF isOpen[v] = NULL THEN {}
                       ELSE {isOpen[v] - 1, isOpen[v], isOpen[v] + 1}
                                \cap (0..(Len(items) - 1))


ArrowKey == {"ArrowLeft", "ArrowRight"}

\* C17: while the pinchable content of the current item is zoomed
\* (scale > 1), ArrowLeft and ArrowRight key presses never change the
\* current index and never fire load-next.
C17_ArrowKeysSuppressedWhileZoomed ==
    [][(/\ isOpen[Solo] = PinchIndex
        /\ transform.scale > 10
        /\ last'.op \in {"keydown", "pinchKeyDown"}
        /\ last'.key \in ArrowKey) =>
           (isOpen' = isOpen /\ ~Has(trace', "onLoadNext"))]_vars

\* C18: the pinch scale is within [1, 4] in every reachable state, and a
\* pinch event with raw scale s sets it to min(max(s, 1), 4).
C18_ScaleClamped ==
    /\ 10 <= transform.scale /\ transform.scale <= 40
    /\ last.op = "pinch" => transform.scale = Min(Max(last.s, 10), 40)

C18_Witness ==
    last.op = "pinch" /\ last.s = 45 /\ transform.scale = 40

C20_ZoomChangeReported ==
    [][last'.op \in {"pinch", "pinchDrag", "doubleClick"} =>
         /\ ((transform'.scale > 10) # (transform.scale > 10)) =>
                Has(trace', IF transform'.scale > 10 THEN "onZoomChange(true)"
                            ELSE "onZoomChange(false)")
         /\ zoomReported' = "zoomed" => transform'.scale > 10
         /\ zoomReported' = "unzoomed" => transform'.scale = 10
         /\ zoomReported' = "none" => transform'.scale = 10]_vars

C20_Witness ==
    /\ last.op = "pinch"
    /\ last.from.scale = 10 /\ transform.scale = 25
    /\ zoomReported = "zoomed"


\* C21: for an unzoomed wrapper (scale 1, no pinch active) a drag event
\* invokes the close-request callback exactly once if it is a release with
\* my > 100 and not at all otherwise: not for a release with my <= 100, and
\* never while the pointer is down.
C21_SwipeToClose ==
    (last.op = "pinchDrag" /\ last.from.scale = 10 /\ ~last.pinching) =>
        Count(trace, "onRequestClose") =
            (IF ~last.down /\ last.my > 100 THEN 1 ELSE 0)

C21_Witness ==
    /\ last.op = "pinchDrag" /\ last.from.scale = 10 /\ ~last.pinching
    /\ ~last.down /\ last.my = 120
    /\ Count(trace, "onRequestClose") = 1


\* C22: the vertical swipe offset is never negative, equals max(0, my)
\* after a drag event of an unzoomed wrapper with the pointer down, and is 0
\* whenever no drag is in progress, whichever way the drag ended (release
\* or cancellation).
C22_SwipeOffsetZeroAtRest ==
    /\ swipeOffsetY >= 0
    /\ (last.op = "pinchDrag" /\ last.from.scale = 10 /\ ~last.pinching /\ last.down)
           => swipeOffsetY = Max(0, last.my)
    /\ ~pinchDown => swipeOffsetY = 0


\* C23: within a render pass, after k calls of getOnClick the item list has
\* exactly k items in call order and the i-th call (0-based) is bound to
\* index i; the list is empty at the beginning of every render pass.
C23_ItemsInCallOrder ==
    [][/\ (phase = "idle" /\ phase' = "render") => (items' = <<>> /\ handlers' = <<>>)
       /\ Len(items') = Len(handlers')
       /\ \A k \in 1..Len(handlers') :
              handlers'[k] = k - 1 /\ items'[k] = Catalogue(k)]_vars

C23_Witness ==
    phase = "render" /\ Len(handlers) = 3 /\ handlers = <<0, 1, 2>>
                     /\ items = <<Catalogue(1), Catalogue(2), Catalogue(3)>>


\* C24: when the consumer's click callback leaves the event
\* default-prevented, the handler returned by getOnClick leaves every
\* viewer's current index unchanged and fires no visibility notification;
\* the consumer's callback is invoked before any viewer is opened.
C24_PreventedClickOpensNothing ==
    [][last'.op = "click" =>
         /\ last'.prevented =>
                (isOpen' = isOpen /\ Notifications(trace') = <<>>
                                  /\ ~Has(trace', "setOpen"))
         /\ last'.cb =>
                (Count(trace', "onClick") = 1 /\ trace'[1] = "onClick")]_vars

C24_Witness ==
    /\ last.op = "click" /\ last.prevented
    /\ trace = <<"onClick">>
    /\ \E v \in Viewer : mounted[v] /\ isOpen[v] # NULL /\ isOpen[v] # last.arg
    /\ \E v \in Viewer : mounted[v] /\ isOpen[v] = NULL


\* C25 as stated: every primitive (Root, Header, Close, Viewport, Item,
\* Pinchable) and useLightboxState throws when rendered without an
\* enclosing viewer context.
C25_EveryPrimitiveThrows ==
    (last.op = "render" /\ ~last.ctx.present) => last.outcome = "throws"

\* C25 amended: Root, Close, Viewport, Item and useLightboxState throw when
\* rendered without an enclosing viewer context; Header and Pinchable read
\* no context and render.
C25_ContextReadersThrow ==
    (last.op = "render" /\ ~last.ctx.present) =>
        IF last.primitive \in {"Header", "Pinchable"}
        THEN last.outcome = "renders"
        ELSE last.outcome = "throws" /\ trace = <<"throw">>

C25_Witness ==
    /\ last.op = "render" /\ ~last.ctx.present
    /\ last.primitive = "Close" /\ last.outcome = "throws"


\* C26: in every settled state the item list an open viewer provides to the
\* shell primitives and to useLightboxState equals the hook's latest item
\* list, also after the hook re-rendered with a changed list while the
\* viewer stayed open at the same index.
C26_ContextListIsLatest ==
    phase = "idle" =>
        \A v \in Viewer : isOpen[v] # NULL => ctxItems[v] = items


\* C27: once the viewer is closed its index stays null until an item click
\* handler is invoked: no callback still in flight (a drag release waiting
\* for load-next) opens it again.
C27_ClosedUntilClicked ==
    [][(isOpen[Solo] = NULL /\ isOpen'[Solo] # NULL) => last'.op = "click"]_vars


\* the value of the last visibility notification among the calls, as the
\* openness it announces
Announces(calls) ==
    Notifications(calls)[Len(Notifications(calls))] = "onVisibilityChange(true)"

\* C28: for a single mounted viewer the most recent visibility notification
\* agrees with whether the index is non-null: every step that notifies
\* announces the openness it leaves behind, and every step that takes the
\* viewer from closed to open or from open to closed notifies.
C28_VisibilityTracksIndex ==
    [][mounted' = [w \in Viewer |-> w = Solo] =>
          /\ Notifications(trace') # <<>> =>
                 (Announces(trace') <=> isOpen'[Solo] # NULL)
          /\ ((isOpen[Solo] = NULL) # (isOpen'[Solo] = NULL)) =>
                 Notifications(trace') # <<>>]_vars


\* C29: while the Pinchable is zoomed (scale > 1) a drag only pans: each
\* drag event sets the pan to the gesture offset and leaves the scale, the
\* swipe offset, the Item slots' drag offset and the current index
\* unchanged, and invokes no close request.
C29_ZoomedDragOnlyPans ==
    [][last'.op = "zoomedDrag" =>
          /\ transform' = [scale |-> transform.scale,
                           x |-> last'.ox, y |-> last'.oy]
          /\ swipeOffsetY' = swipeOffsetY
          /\ ~Has(trace', "onRequestClose")
          /\ offsetX' = offsetX
          /\ isOpen' = isOpen]_vars


\* C30: a pinch that begins in the middle of a drag cancels the drag: every
\* drag event delivered while a pinch is active leaves the pan, the scale and
\* the swipe offset unchanged, writes no state and invokes no close request.
C30_PinchCancelsDrag ==
    [][(last'.op = "pinchDrag" /\ last'.pinching) =>
          /\ Has(trace', "cancel")
          /\ transform' = transform
          /\ swipeOffsetY' = swipeOffsetY
          /\ ~Has(trace', "setTransform")
          /\ ~Has(trace', "setSwipeOffsetY")
          /\ ~Has(trace', "onRequestClose")
          /\ isOpen' = isOpen]_vars

\* a drag in progress at swipe offset 100 was cancelled by a pinch, and a
\* drag event of a zoomed and panned wrapper was cancelled by a pinch
C30_Witness ==
    /\ last.op = "pinchDrag" /\ last.pinching
    /\ Has(trace, "cancel")
    /\ \/ swipeOffsetY = 100 /\ ~pinchDown
       \/ transform.scale > 10 /\ transform.x = 30


\* the viewers that are open
OpenViewers == {v \in Viewer : isOpen[v] # NULL}

\* C31: the attachment nodes follow the open state. In every state the
\* number of nodes appended to the document body equals the number of open
\* viewers, every open viewer's Portal holds a node of its own in the body,
\* and a closed viewer renders nothing and holds no node; a node leaves the
\* body only in the step in which the viewer holding it closes or unmounts,
\* and it always leaves then, so each node created is removed exactly once.
C31_NodesFollowOpenState ==
    /\ [](/\ Cardinality(body) = Cardinality(OpenViewers)
          /\ \A v \in OpenViewers : container[v] \in body
          /\ \A v, w \in OpenViewers : container[v] = container[w] => v = w
          /\ \A v \in Viewer \ OpenViewers :
                 viewRenders(isOpen[v]) = "nothing" /\ container[v] = NULL)
    /\ [][body \ body' =
             {container[v] : v \in {w \in Viewer : isOpen[w] # NULL /\ isOpen'[w] = NULL}}]_vars

\* after opens, an index change, a close and a re-open one viewer is open
\* and the other closed, with one node in the body
C31_Witness ==
    /\ Cardinality(OpenViewers) = 1
    /\ Cardinality(body) = 1
    /\ \E v \in Viewer : mounted[v] /\ isOpen[v] = NULL
    /\ \E v \in OpenViewers : isOpen[v] = 1 /\ container[v] = 2


\* the consumers that are callback refs returning a cleanup function
CleanupRefs == {i \in 1..Len(merged.refs) : merged.refs[i] = "cleanup"}

\* C32: when the merged ref is assigned a non-null handle every non-null
\* consumer receives it, and when the handle is released (null is assigned)
\* every cleanup function a callback consumer returned has been invoked
\* exactly once.
C32_FanOutAndCleanup ==
    last.op = "setCurrent" =>
        IF last.value # NULL
        THEN \A i \in 1..Len(merged.refs) :
                 merged.refs[i] # "none" => merged.held[i] = last.value
        ELSE \A i \in CleanupRefs : merged.invoked[i] = merged.returned[i]

====
